---- MODULE Spec2Model ----
(***************************************************************************)
(* Model of bumper/xmppserver.py: the per-connection XMPP session state    *)
(* machine (XMPPAsyncClient), the protocol callbacks that create and       *)
(* remove sessions (XMPPServer_Protocol) and the routing of iq stanzas     *)
(* over the process-wide client list (XMPPServer.clients).                 *)
(*                                                                         *)
(* Strings are sequences of one-character strings, so that the substring,  *)
(* split and lower-casing operations of the code are computed as the code  *)
(* computes them.                                                          *)
(***************************************************************************)
EXTENDS Integers, Sequences, FiniteSets, TLC

\* ------------------------------------------------------------------ bounds
NumSessions == 2
MaxSteps == 5
MaxRouteSteps == 9
MaxLiveSteps == 7
MaxPeerSteps == 7
MaxCtlSteps == 8

Sessions == 1..NumSessions

\* --------------------------------------------------------- program constants
IDLE == 0
CONNECT == 1
INIT == 2
BIND == 3
READY == 4
DISCONNECT == 5

UNKNOWN == 0
BOT == 1
CONTROLLER == 2

\* --------------------------------------------------------------- strings
\* The value of an absent attribute (Python None).
None == <<"None">>
\* The NUL character of a SASL PLAIN payload.
NUL == "NUL"

server_id == <<"e","c","o","u","s","e","r",".","n","e","t">>
EcorobotNet == <<".","e","c","o","r","o","b","o","t",".","n","e","t">>
AtomSuffix == <<"/","a","t","o","m">>
DeAddr == <<"d","e">> \o EcorobotNet
RlAddr == <<"r","l">> \o EcorobotNet

UpperToLower ==
  [A |-> "a", B |-> "b", C |-> "c", D |-> "d", E |-> "e", F |-> "f",
   G |-> "g", H |-> "h", I |-> "i", J |-> "j", K |-> "k", L |-> "l",
   M |-> "m", N |-> "n", O |-> "o", P |-> "p", Q |-> "q", R |-> "r",
   S |-> "s", T |-> "t", U |-> "u", V |-> "v", W |-> "w", X |-> "x",
   Y |-> "y", Z |-> "z"]

\* str.lower()
Lower(s) ==
  [i \in 1..Len(s) |->
     IF s[i] \in DOMAIN UpperToLower THEN UpperToLower[s[i]] ELSE s[i]]

\* a in b
IsSubstr(a, b) ==
  \E i \in 0..(Len(b) - Len(a)) : SubSeq(b, i + 1, i + Len(a)) = a

\* s.find(c) > -1 for a one-character c
HasChar(s, c) == \E i \in 1..Len(s) : s[i] = c

\* s.startswith(p)
StartsWith(s, p) == Len(s) >= Len(p) /\ SubSeq(s, 1, Len(p)) = p

\* s.split(c) for a one-character separator c
RECURSIVE Split(_, _)
Split(s, c) ==
  IF ~HasChar(s, c) THEN <<s>>
  ELSE LET i == CHOOSE k \in 1..Len(s) :
                  s[k] = c /\ \A j \in 1..(k - 1) : s[j] # c
       IN <<SubSeq(s, 1, i - 1)>> \o Split(SubSeq(s, i + 1, Len(s)), c)


\* s.split("@")[0]
BeforeAt(s) == Split(s, "@")[1]

\* Python truthiness of an optional string
Truthy(s) == s # None /\ s # <<>>

\* ------------------------------------------------------------------ inputs
\* Decoded SASL PLAIN payloads (the result of base64.b64decode(xml.text)).
PayStd == <<NUL, "S", "N", NUL, "p">>
PayGood == <<NUL, "u", "/", "r", "/", "c">>
PayBad == <<NUL, "u", "/", "r", "/", "x">>
PayBare == <<NUL, "u">>
PayNoNul == <<"u">>
\* A payload whose username, the text after the first NUL, is empty.
PayNoUser == <<NUL>>
Payloads == {PayStd, PayGood, PayBad, PayBare, PayNoNul, PayNoUser}
\* A payload whose username occurs in "rl.ecorobot.net".
PayEco == <<NUL, "e", "c", "o", NUL, "p">>

\* Stream openers: whether the chunk holds "jabber:client", and the text it
\* holds between to=" and ".ecorobot.net" (None: no ".ecorobot.net").
Opener(jabber, dc) == [jabber |-> jabber, dc |-> dc]
Openers == {Opener(TRUE, <<"x">>), Opener(TRUE, None), Opener(FALSE, None)}

\* Destination addresses of inbound iq stanzas.
ToBot == <<"s","n","@","x">> \o EcorobotNet
ToUser == <<"U","@">> \o server_id
ToNobodyAt == <<"z","z","@","x">> \o EcorobotNet
ToNobody == <<"z","z">>
Tos == {None, ToBot, ToUser, ToNobodyAt, ToNobody, DeAddr, RlAddr}

\* Resource child of a bind request (None: no <resource/> child).
BindResources == {None, <<"m">>}

\* --------------------------------------------------------------- variables
VARIABLES
  state,           \* XMPPAsyncClient.state
  type,            \* XMPPAsyncClient.type (the session's kind)
  uid,             \* XMPPAsyncClient.uid
  devclass,        \* XMPPAsyncClient.devclass
  clientresource,  \* XMPPAsyncClient.clientresource
  bumper_jid,      \* XMPPAsyncClient.bumper_jid
  TLSUpgraded,     \* XMPPAsyncClient.TLSUpgraded
  transport,       \* XMPPAsyncClient.transport: "tcp" or "tls"
  closed,          \* transport.close() has been called
  hasClient,       \* XMPPServer_Protocol._client is set
  live,            \* between connection_made and connection_lost
  clients,         \* XMPPServer.clients
  tlsQueued,       \* _handle_starttls tasks created and not yet started
  tlsHandshake,    \* a _handle_starttls task awaits loop.start_tls
  pingTasks,       \* schedule_ping tasks alive
  use_auth,        \* bumper.use_auth
  botsDb,          \* credentials store: the dids of the bots it holds
  clientsDb,       \* credentials store: the resources of the clients it holds
  botOnline,       \* dids whose "online" flag is set (bot_set_xmpp)
  clientOnline,    \* resources whose "online" flag is set (client_set_xmpp)
  sent,            \* what the last event wrote, in order
  last,            \* the last event: its operation, session and input
  steps            \* number of events so far

vars == <<state, type, uid, devclass, clientresource, bumper_jid, TLSUpgraded,
          transport, closed, hasClient, live, clients, tlsQueued,
          tlsHandshake, pingTasks, use_auth, botsDb, clientsDb, botOnline,
          clientOnline, sent, last, steps>>

identVars == <<type, uid, devclass, clientresource, bumper_jid>>
tlsVars == <<TLSUpgraded, transport, tlsQueued, tlsHandshake>>
connVars == <<hasClient, live, clients>>
dbVars == <<botsDb, clientsDb, botOnline, clientOnline>>

\* One write: transport.write of message msg on session dst, caused by an
\* event of session src; via names the code path that wrote it.
\* addr is the message's address argument: the to of a forwarded or
\* synthesized stanza, the jid of a bind result, the id of an error.  frm and
\* jid are the from attribute and the jid attribute the server formats into a
\* stanza it synthesizes (None where it formats none).
Synth(dst, src, via, msg, addr, frm, jid) ==
  [dst |-> dst, src |-> src, via |-> via, msg |-> msg, addr |-> addr,
   frm |-> frm, jid |-> jid]

Write(dst, src, via, msg, addr) == Synth(dst, src, via, msg, addr, None, None)

Event(op, s, input) == [op |-> op, s |-> s, input |-> input]

Init ==
  /\ state = [s \in Sessions |-> IDLE]
  /\ type = [s \in Sessions |-> UNKNOWN]
  /\ uid = [s \in Sessions |-> <<>>]
  /\ devclass = [s \in Sessions |-> <<>>]
  /\ clientresource = [s \in Sessions |-> <<>>]
  /\ bumper_jid = [s \in Sessions |-> <<>>]
  /\ TLSUpgraded = [s \in Sessions |-> FALSE]
  /\ transport = [s \in Sessions |-> "none"]
  /\ closed = [s \in Sessions |-> FALSE]
  /\ hasClient = [s \in Sessions |-> FALSE]
  /\ live = [s \in Sessions |-> FALSE]
  /\ clients = <<>>
  /\ tlsQueued = [s \in Sessions |-> 0]
  /\ tlsHandshake = [s \in Sessions |-> FALSE]
  /\ pingTasks = [s \in Sessions |-> 0]
  /\ use_auth \in BOOLEAN
  /\ botsDb = {}
  /\ clientsDb = {}
  /\ botOnline = {}
  /\ clientOnline = {}
  /\ sent = <<>>
  /\ last = Event("init", 0, <<>>)
  /\ steps = 0

\* ------------------------------------------------------------- set_state
\* The state after set_state(new): an attempted decrease raises inside
\* set_state, is logged there and leaves the state as it was.
set_state_unchecked(cur, new) == new

set_state(cur, new) == IF cur > new THEN cur ELSE new

\* set_state runs _disconnect, which closes the transport, when the new
\* state is DISCONNECT and the change was not refused.
ClosesOn(cur, new) == ~(cur > new) /\ new = DISCONNECT

\* _disconnect, run by set_state on a change to DISCONNECT that was not
\* refused: the online flag of the bot stored under the session's uid and
\* that of the client stored under its clientresource are cleared.
Disconnect(s, cur, new) ==
  /\ closed' = [closed EXCEPT ![s] = @ \/ ClosesOn(cur, new)]
  /\ botOnline' = IF ClosesOn(cur, new) THEN botOnline \ {uid[s]}
                                        ELSE botOnline
  /\ clientOnline' = IF ClosesOn(cur, new) THEN clientOnline \ {clientresource[s]}
                                           ELSE clientOnline

\* list.remove(x): removes the first occurrence
RECURSIVE RemoveFirst(_, _)
RemoveFirst(q, x) ==
  IF q = <<>> THEN <<>>
  ELSE IF Head(q) = x THEN Tail(q)
  ELSE <<Head(q)>> \o RemoveFirst(Tail(q), x)

Count(q, x) == Cardinality({i \in 1..Len(q) : q[i] = x})

\* ---------------------------------------------------- connection callbacks
\* XMPPServer_Protocol.connection_made: the first call creates the session
\* and registers it; a later call (end of a TLS upgrade) replaces the
\* transport only.
connection_made_registers_again(s, newTransport) ==
  /\ transport' = [transport EXCEPT ![s] = newTransport]
  /\ hasClient' = [hasClient EXCEPT ![s] = TRUE]
  /\ clients' = Append(clients, s)
  /\ state' = [state EXCEPT ![s] = IF hasClient[s] THEN @ ELSE CONNECT]

connection_made(s, newTransport) ==
  IF hasClient[s]
  THEN /\ transport' = [transport EXCEPT ![s] = newTransport]
       /\ UNCHANGED <<state, hasClient, clients>>
  ELSE /\ transport' = [transport EXCEPT ![s] = newTransport]
       /\ hasClient' = [hasClient EXCEPT ![s] = TRUE]
       /\ clients' = Append(clients, s)
       /\ state' = [state EXCEPT ![s] = CONNECT]

\* A new connection: the protocol object of session s gets its first
\* connection_made.  Sessions are numbered in the order they are accepted.
Accept(s) ==
  /\ ~hasClient[s]
  /\ \A r \in Sessions : r < s => hasClient[r]
  /\ connection_made(s, "tcp")
  /\ live' = [live EXCEPT ![s] = TRUE]
  /\ sent' = <<>>
  /\ last' = Event("accept", s, <<>>)
  /\ UNCHANGED <<identVars, TLSUpgraded, tlsQueued, tlsHandshake, closed,
                 pingTasks, use_auth, dbVars>>

\* XMPPServer_Protocol.connection_lost
ConnectionLost(s) ==
  /\ live[s]
  /\ hasClient[s]
  /\ clients' = RemoveFirst(clients, s)
  /\ state' = [state EXCEPT ![s] = set_state(state[s], DISCONNECT)]
  /\ Disconnect(s, state[s], DISCONNECT)
  /\ live' = [live EXCEPT ![s] = FALSE]
  /\ sent' = <<>>
  /\ last' = Event("connection_lost", s, <<>>)
  /\ UNCHANGED <<identVars, tlsVars, hasClient, pingTasks, use_auth, botsDb,
                 clientsDb>>

\* ------------------------------------------------------------ data events
\* Events of one connection arrive while the connection is up.  A chunk that
\* parses may carry several stanzas, so stanza events are still handled
\* after the session closed its own transport; a chunk that does not parse
\* (a stream opener or a lone stream close) is a chunk of its own and is
\* read only while the transport is open.
CanRead(s) == live[s] /\ hasClient[s]
CanReadChunk(s) == CanRead(s) /\ ~closed[s]

\* _handle_connect(data) with xml None: the reply to a stream opener.
\* jabber: "jabber:client" occurs in the chunk; dc: the text between to="
\* and ".ecorobot.net", None when ".ecorobot.net" does not occur.
ConnectReplies(s, jabber) ==
  IF state[s] = CONNECT
  THEN IF jabber
       THEN <<Write(s, s, "reply", "stream", <<>>),
              Write(s, s, "reply",
                    IF TLSUpgraded[s] THEN "features-sasl"
                                      ELSE "features-starttls-sasl", <<>>)>>
       ELSE <<Write(s, s, "reply", "</stream>", <<>>)>>
  ELSE IF state[s] = INIT /\ jabber
       THEN <<Write(s, s, "reply", "stream", <<>>),
              Write(s, s, "reply", "features-bind-session", <<>>)>>
       ELSE <<>>

\* parse_data on a chunk holding "<stream:stream": parsing fails and
\* _handle_connect runs in CONNECT and INIT only.
StreamOpen(s, o) ==
  /\ CanReadChunk(s)
  /\ devclass' = [devclass EXCEPT ![s] =
        IF state[s] = CONNECT /\ o.jabber /\ o.dc # None THEN o.dc ELSE @]
  /\ sent' = ConnectReplies(s, o.jabber)
  /\ last' = Event("stream_open", s, <<>>)
  /\ UNCHANGED <<state, type, uid, clientresource, bumper_jid, tlsVars,
                 closed, connVars, pingTasks, use_auth, dbVars>>

\* parse_data on a lone "</stream:stream>": parsing fails with a mismatched
\* tag, the server answers with the same and the session disconnects.
LoneCloseError == "mismatched tag"

ClosesStream_never(err) == FALSE

\* Lines 774-803: of the chunks that hold "</stream:stream>" and no
\* "<stream:stream", the one whose ParseError is neither "no element found"
\* nor "not well-formed (invalid token)" ends the session.
ClosesStream(err) ==
  err \notin {"no element found", "not well-formed (invalid token)"}

StreamClose(s) ==
  /\ CanReadChunk(s)
  /\ sent' = <<Write(s, s, "reply", "</stream:stream>", <<>>)>>
  /\ state' = [state EXCEPT ![s] =
        IF ClosesStream(LoneCloseError) THEN set_state(@, DISCONNECT) ELSE @]
  /\ IF ClosesStream(LoneCloseError)
     THEN Disconnect(s, state[s], DISCONNECT)
     ELSE UNCHANGED <<closed, botOnline, clientOnline>>
  /\ last' = Event("stream_close", s, <<>>)
  /\ UNCHANGED <<identVars, tlsVars, connVars, pingTasks, use_auth, botsDb,
                 clientsDb>>

\* A stanza that arrives in two chunks: the head chunk ends inside the stanza
\* and the tail chunk holds the rest.  stanza names the stanza that was cut:
\* a session request, a presence of type unavailable, a SASL auth.
SplitStanzas == {"session", "unavailable", "auth"}
FragmentChunks == [stanza : SplitStanzas, part : {"head", "tail"}]

\* The outcome of ET.fromstring on "<root>" + chunk + "</root>": the message
\* of the ParseError, or "text" when the chunk parses as character data of
\* the root and yields no item.
FragmentParse(f) ==
  IF f.part = "head"
  THEN IF f.stanza = "auth" THEN "mismatched tag"
       ELSE "not well-formed (invalid token)"
  ELSE IF f.stanza = "unavailable" THEN "text"
       ELSE "mismatched tag"

\* parse_data on one chunk of a split stanza.  The chunk holds neither
\* "<stream:stream" nor "</stream:stream>", so every ParseError branch only
\* logs, and a chunk of character data yields no item to dispatch; nothing
\* of the chunk is kept for the next call.  A tail chunk is the chunk that
\* follows its head chunk on the same connection.
Fragment(s, f) ==
  /\ CanReadChunk(s)
  /\ f.part = "tail" => last = Event("fragment", s, <<f.stanza, "head">>)
  /\ FragmentParse(f) \in {"no element found", "not well-formed (invalid token)",
                          "mismatched tag", "text"}
  /\ sent' = <<>>
  /\ last' = Event("fragment", s, <<f.stanza, f.part>>)
  /\ UNCHANGED <<state, identVars, tlsVars, closed, connVars, pingTasks,
                 use_auth, dbVars>>

\* ----------------------------------------------------------------- SASL
\* bumper.db.check_authcode: the credentials store knows one (uid, authcode).
AuthDb == {<< <<"u">>, <<"c">> >>}
check_authcode(u, code) == <<u, code>> \in AuthDb

\* saslauth = b64decode(text).split("/"); saslauth[0].split("\x00")
SaslParts(p) == Split(p, "/")
SaslFirst(p) == Split(SaslParts(p)[1], NUL)

\* The payload from which lines 522-525 take a username without raising.
SaslParses(p) == p # None /\ p # <<>> /\ Len(SaslFirst(p)) > 1

SaslUsername(p) == SaslFirst(p)[2]

\* The resource the payload carries, None when it carries none.
SaslResource(p) ==
  IF Len(SaslParts(p)) > 1 THEN SaslParts(p)[2]
  ELSE IF Len(SaslFirst(p)) > 2 THEN SaslFirst(p)[3]
  ELSE None

SaslAuthcode(p) == IF Len(SaslParts(p)) > 2 THEN SaslParts(p)[3] ELSE <<>>

\* Lines 538-555: a session with a devclass is a bot and is always accepted;
\* a controller is accepted by its authcode, or when use_auth is off.
AuthAccepted_ignoring_use_auth(s, p) ==
  \/ devclass[s] # <<>>
  \/ check_authcode(SaslUsername(p), SaslAuthcode(p))

AuthAccepted(s, p) ==
  \/ devclass[s] # <<>>
  \/ check_authcode(SaslUsername(p), SaslAuthcode(p))
  \/ ~use_auth

AuthKind(s) == IF devclass[s] # <<>> THEN BOT ELSE CONTROLLER

\* The uid after _handle_sasl_auth: assigned from the payload (line 527)
\* before the credentials are looked at.
UidAfterAuth(s, p) == IF SaslParses(p) THEN SaslUsername(p) ELSE uid[s]

\* What _handle_sasl_auth writes: nothing when the payload raised.
AuthReplies(s, p) ==
  IF ~SaslParses(p) THEN <<>>
  ELSE IF AuthAccepted(s, p)
       THEN <<Write(s, s, "reply", "success", <<>>)>>
       ELSE <<Write(s, s, "reply", "response", <<>>)>>

\* _handle_sasl_auth, called by parse_data for an <auth/> of the SASL
\* namespace in whatever state the session is.
Auth(s, p) ==
  /\ CanRead(s)
  /\ uid' = [uid EXCEPT ![s] = UidAfterAuth(s, p)]
  /\ clientresource' = [clientresource EXCEPT ![s] =
        IF SaslParses(p) /\ SaslResource(p) # None THEN SaslResource(p) ELSE @]
  /\ type' = [type EXCEPT ![s] =
        IF SaslParses(p) /\ AuthAccepted(s, p) THEN AuthKind(s) ELSE @]
  /\ state' = [state EXCEPT ![s] =
        IF SaslParses(p) /\ AuthAccepted(s, p) THEN set_state(@, INIT) ELSE @]
  /\ botsDb' = IF SaslParses(p) /\ devclass[s] # <<>>
               THEN botsDb \cup {SaslUsername(p)} ELSE botsDb
  /\ clientsDb' = IF SaslParses(p) /\ devclass[s] = <<>> /\ AuthAccepted(s, p)
                  THEN clientsDb \cup {clientresource'[s]} ELSE clientsDb
  /\ sent' = AuthReplies(s, p)
  /\ last' = Event("auth", s, p)
  /\ UNCHANGED <<devclass, bumper_jid, tlsVars, closed, connVars, pingTasks,
                 use_auth, botOnline, clientOnline>>

\* ------------------------------------------------------------- STARTTLS
\* parse_data on <starttls/>: a task running _handle_starttls is created
\* unless the session is already marked upgraded.
StartTls(s) ==
  /\ CanRead(s)
  /\ tlsQueued' = [tlsQueued EXCEPT ![s] = IF TLSUpgraded[s] THEN @ ELSE @ + 1]
  /\ sent' = <<>>
  /\ last' = Event("starttls", s, <<>>)
  /\ UNCHANGED <<state, identVars, TLSUpgraded, transport, tlsHandshake,
                 closed, connVars, pingTasks, use_auth,
                 dbVars>>

\* _handle_starttls up to its await: the first task to run marks the session
\* upgraded, sends <proceed/> and starts the handshake; a later one returns.
StartsUpgrade_unchecked(s) == TRUE

\* Line 492: if not self.TLSUpgraded
StartsUpgrade(s) == ~TLSUpgraded[s]

StartTlsTask(s) ==
  /\ tlsQueued[s] > 0
  /\ tlsQueued' = [tlsQueued EXCEPT ![s] = @ - 1]
  /\ TLSUpgraded' = [TLSUpgraded EXCEPT ![s] = TRUE]
  /\ tlsHandshake' = [tlsHandshake EXCEPT ![s] = @ \/ StartsUpgrade(s)]
  /\ sent' = IF StartsUpgrade(s)
             THEN <<Write(s, s, "reply", "proceed", <<>>)>>
             ELSE <<>>
  /\ last' = Event("starttls_task", s, <<>>)
  /\ UNCHANGED <<state, identVars, transport, closed, connVars, pingTasks,
                 use_auth,
                 dbVars>>

\* loop.start_tls returned: protocol.connection_made(new_transport)
TlsDone(s) ==
  /\ tlsHandshake[s]
  /\ live[s]
  /\ ~closed[s]
  /\ tlsHandshake' = [tlsHandshake EXCEPT ![s] = FALSE]
  /\ connection_made(s, "tls")
  /\ sent' = <<>>
  /\ last' = Event("tls_done", s, <<>>)
  /\ UNCHANGED <<identVars, TLSUpgraded, tlsQueued, closed, live, pingTasks,
                 use_auth,
                 dbVars>>

\* loop.start_tls raised: the exception is logged
TlsFail(s) ==
  /\ tlsHandshake[s]
  /\ tlsHandshake' = [tlsHandshake EXCEPT ![s] = FALSE]
  /\ sent' = <<>>
  /\ last' = Event("tls_fail", s, <<>>)
  /\ UNCHANGED <<state, identVars, TLSUpgraded, transport, tlsQueued, closed,
                 connVars, pingTasks, use_auth,
                 dbVars>>

\* ----------------------------------------------------------------- ping
\* One run of schedule_ping: a session that is not DISCONNECT is pinged and
\* the task re-creates itself after the sleep; otherwise the task ends.
PingStops_never(s) == FALSE

\* Line 309: if not self.state == 5
PingStops(s) == state[s] = DISCONNECT

SchedulePing(s) ==
  /\ pingTasks[s] > 0
  /\ pingTasks' = [pingTasks EXCEPT ![s] = IF PingStops(s) THEN @ - 1 ELSE @]
  /\ sent' = IF PingStops(s) THEN <<>>
             ELSE <<Write(s, s, "sched", "ping", bumper_jid[s])>>
  /\ last' = Event("schedule_ping", s, <<>>)
  /\ UNCHANGED <<state, identVars, tlsVars, closed, connVars, use_auth,
                 dbVars>>

\* ------------------------------------------------------------- presence
PresenceKinds == {"status", "available", "unavailable", "other"}

presence_state_kept(cur, kind) == cur

\* Lines 682-689: a presence of type unavailable calls set_state("DISCONNECT")
presence_state(cur, kind) ==
  IF kind = "unavailable" THEN set_state(cur, DISCONNECT) ELSE cur

\* _handle_presence
Presence(s, kind) ==
  /\ CanRead(s)
  /\ sent' =
       IF kind = "status"
       THEN <<Write(s, s, "reply", "presence-dummy", bumper_jid[s])>> \o
            (IF type[s] = BOT
             THEN <<Write(s, s, "reply", "GetDeviceInfo", bumper_jid[s])>>
             ELSE <<>>)
       ELSE IF kind = "unavailable" THEN <<>>
       ELSE <<Write(s, s, "reply", "presence-dummy", bumper_jid[s])>>
  /\ state' = [state EXCEPT ![s] = presence_state(@, kind)]
  /\ IF kind = "unavailable"
     THEN Disconnect(s, state[s], DISCONNECT)
     ELSE UNCHANGED <<closed, botOnline, clientOnline>>
  /\ last' = Event("presence", s, <<kind>>)
  /\ UNCHANGED <<identVars, tlsVars, connVars, pingTasks, use_auth, botsDb,
                 clientsDb>>

\* -------------------------------------------------------------------- iq
\* An inbound <iq/>: its first child (stripped of its namespace, "none" when
\* it has no child), its type and to attributes, the <resource/> text of a
\* bind request, the tokens its raw text contains, and for a query the
\* attribute its first child carries ("none": the query is empty) with the
\* admin user that attribute names.  Its id attribute is "1" unless the
\* stanza is built with IqId.
Iq(child, typ, to, res, tokens, ctl0, admin) ==
  [child |-> child, type |-> typ, to |-> to, res |-> res, tokens |-> tokens,
   ctl0 |-> ctl0, admin |-> admin, id |-> <<"1">>]

IqId(iq, id) == [iq EXCEPT !.id = id]
StanzaIds == {<<"8">>, <<"9">>}

FuidPrefix == <<"f","u","i","d","_">>
FusernamePrefix == <<"f","u","s","e","r","n","a","m","e","_">>
OwnerA == <<"o">>
OwnerB == <<"b">>
FuidUser == FuidPrefix \o <<"1">>
FusernameUser == FusernamePrefix \o <<"1">>

IqStanzas ==
  {Iq("bind", "set", None, r, {}, "none", <<>>) : r \in BindResources}
  \cup {Iq("session", "set", None, None, {}, "none", <<>>)}
  \cup {Iq("ping", "get", t, None, {}, "none", <<>>) :
          t \in {ToBot, ToUser, ToNobody, None}}
  \cup {Iq("query", "set", t, None, {}, "plain", <<>>) : t \in {ToBot, ToNobodyAt, None}}
  \cup {IqId(Iq("query", "get", None, None, {"roster"}, "none", <<>>), <<"8">>)}
  \cup {Iq("query", "set", RlAddr, None, {"com:sf"}, "plain", <<>>)}
  \cup {Iq("query", "result", ToUser, None, {"errno103"}, "error", a) : a \in {OwnerA, FuidUser}}
  \cup {Iq("none", "result", t, None, {}, "none", <<>>) : t \in Tos \ {RlAddr}}
  \cup {Iq("none", "get", ToBot, None, {}, "none", <<>>)}

\* Roster and service discovery queries addressed to the bot whose uid is
\* "eco".
ToEco == <<"e","c","o","@","x">> \o EcorobotNet
DiscoStanzas ==
  {IqId(Iq("query", "get", ToEco, None, {t}, "plain", <<>>), i) :
     t \in {"roster", "disco#items", "disco#info"}, i \in StanzaIds}

\* The stanzas with errno='103': addressed to a user, to a fuid_ user or to
\* nobody, their first ctl naming an admin user in its error or admin
\* attribute or carrying neither.
ToFuid == FuidUser \o <<"@">> \o server_id \o <<"/","r">>
EnrollStanzas ==
  {Iq("query", "result", t, None, {"errno103"}, "error", a) :
     t \in {ToUser, ToFuid, None}, a \in {OwnerA, FuidUser, FusernameUser}}
  \cup {Iq("query", "result", ToUser, None, {"errno103"}, "admin", OwnerB)}
  \cup {Iq("query", "result", ToUser, None, {"errno103"}, "plain", <<>>)}

\* [f(c) for c in q]
Deliver(q, s, via, msg, to) ==
  IF q = <<>> THEN <<>>
  ELSE [i \in 1..Len(q) |-> Write(q[i], s, via, msg, to)]

\* client.uid.lower() in to.lower()
UidMatches(c, to) == IsSubstr(Lower(uid[c]), Lower(to))

Routable_in_any_state(c, s) == bumper_jid[c] # bumper_jid[s]

\* client.bumper_jid != self.bumper_jid and client.state == client.READY
Routable(c, s) == bumper_jid[c] # bumper_jid[s] /\ state[c] = READY

\* _handle_ping
PingWrites(s, iq) ==
  IF Truthy(iq.to) /\ ~HasChar(iq.to, "@")
  THEN <<Write(s, s, "reply", "ping-result", iq.to)>>
  ELSE Deliver(SelectSeq(clients,
                 LAMBDA c : Routable(c, s) /\ Truthy(iq.to)
                            /\ UidMatches(c, iq.to)),
               s, "ping", "iq", iq.to)

Unsupported_without_disco == {"roster"}

\* Lines 200-225: the tokens _handle_ctl answers with error 501
Unsupported == {"roster", "disco#items", "disco#info"}

CtlTarget_of_any_kind(c, s, to) ==
  Routable(c, s) /\ Truthy(to) /\ UidMatches(c, to)

\* Lines 251-266: the peers a com:ctl query is forwarded to
CtlTarget(c, s, to) ==
  Routable(c, s) /\ type[c] = BOT /\ Truthy(to) /\ UidMatches(c, to)

\* _handle_ctl
CtlWrites(s, iq) ==
  IF iq.tokens \cap Unsupported # {}
  THEN <<Write(s, s, "reply", "error-501", iq.id)>>
  ELSE (IF iq.type = "set" /\ "com:sf" \in iq.tokens /\ iq.to = RlAddr
        THEN <<Write(s, s, "reply", "rl-result", <<>>)>>
        ELSE <<>>)
       \o
       (IF iq.ctl0 = "admin" /\ type[s] = BOT
        THEN <<>>
        ELSE Deliver(SelectSeq(clients, LAMBDA c : CtlTarget(c, s, iq.to)),
                     s, "ctl", "iq", iq.to))

\* Lines 388-393: the address _handle_result matches uids against.  A to
\* without "@" is kept as it is; any other to becomes its part before the
\* "@" followed by "@ecouser.net" (and an absent to raises).
ResultTo(to) ==
  IF Truthy(to) /\ ~HasChar(to, "@") THEN to
  ELSE BeforeAt(to) \o <<"@">> \o server_id

\* Lines 395-412: a READY peer of another jid is written to when the address
\* has no "@", or when its uid occurs in the address.
ResultMatches(c, s, ctl_to) ==
  Routable(c, s) /\ (~HasChar(ctl_to, "@") \/ UidMatches(c, ctl_to))

Enrolls_by_new_user(iq) ==
  /\ Truthy(iq.to)
  /\ ~(StartsWith(iq.to, FuidPrefix) \/ StartsWith(iq.to, FusernamePrefix)
       \/ use_auth)

\* Lines 341-345: the enrollment is sent unless the admin user is a fuid_ or
\* fusername_ user or use_auth is on.
Enrolls(iq) ==
  /\ Truthy(iq.to)
  /\ ~(StartsWith(iq.admin, FuidPrefix) \/ StartsWith(iq.admin, FusernamePrefix)
       \/ use_auth)

EnrollWrites_from_new_user(s, iq) ==
  LET newuser == Split(iq.to, "/")[1]
  IN <<Synth(s, s, "enroll", "AddUser", bumper_jid[s], newuser, newuser),
       Synth(s, s, "enroll", "SetAC", bumper_jid[s], newuser, newuser),
       Synth(s, s, "enroll", "GetUserInfo", bumper_jid[s], newuser, None)>>

\* Lines 349-369: the three stanzas sent to the bot itself, from the admin
\* user to the bot's jid, the first two naming the new user.
EnrollWrites(s, iq) ==
  LET newuser == Split(iq.to, "/")[1]
  IN <<Synth(s, s, "enroll", "AddUser", bumper_jid[s], iq.admin, newuser),
       Synth(s, s, "enroll", "SetAC", bumper_jid[s], iq.admin, newuser),
       Synth(s, s, "enroll", "GetUserInfo", bumper_jid[s], iq.admin, None)>>

\* Lines 378-386: a bot's stanza to de.ecorobot.net goes to every client.
Broadcast(s, iq) ==
  IF type[s] = BOT /\ iq.to = DeAddr
  THEN Deliver(clients, s, "bcast", "iq", iq.to)
  ELSE <<>>

\* _handle_result
ResultWrites(s, iq) ==
  IF "errno103" \in iq.tokens
  THEN IF type[s] = BOT /\ iq.child # "none" /\ iq.ctl0 \in {"error", "admin"}
          /\ Enrolls(iq)
       THEN EnrollWrites(s, iq)
       ELSE <<>>
  ELSE Broadcast(s, iq) \o
       (IF ~Truthy(iq.to) THEN <<>>
        ELSE Deliver(SelectSeq(clients,
                       LAMBDA c : ResultMatches(c, s, ResultTo(iq.to))),
                     s, "result", "iq", iq.to))

\* The jid _handle_bind assigns
BindJid(s, iq) ==
  IF devclass[s] # <<>>
  THEN uid[s] \o <<"@">> \o devclass[s] \o EcorobotNet \o AtomSuffix
  ELSE IF iq.res # None
       THEN uid[s] \o <<"@">> \o server_id \o <<"/">> \o iq.res
       ELSE uid[s] \o <<"@">> \o server_id

\* What _handle_iq writes: it dispatches on the child, then on the type, in
\* whatever state the session is.
IqWrites(s, iq) ==
  IF iq.child = "bind"
  THEN <<Write(s, s, "reply", "bind-result", BindJid(s, iq))>>
  ELSE IF iq.child = "session"
  THEN <<Write(s, s, "reply", "session-result", <<>>)>>
  ELSE IF iq.child = "ping" THEN PingWrites(s, iq)
  ELSE IF iq.child = "query"
  THEN IF type[s] = BOT THEN ResultWrites(s, iq) ELSE CtlWrites(s, iq)
  ELSE IF iq.type \in {"result", "set"} THEN ResultWrites(s, iq)
  ELSE <<>>

\* The state _handle_iq leaves the session in
IqState(s, iq) ==
  IF iq.child = "bind" THEN set_state(state[s], BIND)
  ELSE IF iq.child = "session" THEN set_state(state[s], READY)
  ELSE state[s]

\* parse_data on an <iq/>: _handle_iq
HandleIq(s, iq) ==
  /\ CanRead(s)
  /\ state' = [state EXCEPT ![s] = IqState(s, iq)]
  /\ bumper_jid' = [bumper_jid EXCEPT ![s] =
        IF iq.child = "bind" THEN BindJid(s, iq) ELSE @]
  /\ clientresource' = [clientresource EXCEPT ![s] =
        IF iq.child = "bind" /\ devclass[s] = <<>> /\ iq.res # None
        THEN iq.res ELSE @]
  /\ pingTasks' = [pingTasks EXCEPT ![s] =
        IF iq.child = "session" THEN @ + 1 ELSE @]
  /\ botOnline' = IF iq.child = "bind" /\ uid[s] \in botsDb
                  THEN botOnline \cup {uid[s]} ELSE botOnline
  /\ clientOnline' = IF iq.child = "bind" /\ clientresource[s] \in clientsDb
                     THEN clientOnline \cup {clientresource[s]}
                     ELSE clientOnline
  /\ sent' = IqWrites(s, iq)
  /\ last' = Event("iq", s, IF iq.child = "ping" THEN <<iq.child, iq.to>>
                                                ELSE <<iq.child>>)
  /\ UNCHANGED <<type, uid, devclass, tlsVars, closed, connVars, use_auth,
                 botsDb, clientsDb>>

\* ---------------------------------------------------------- specification
\* Behaviours are explored up to n events.
Tick(n) == steps < n /\ steps' = steps + 1

\* One event of the server: a protocol callback, a task step or an inbound
\* stanza.
Next ==
  \/ \E s \in Sessions : Tick(MaxSteps) /\ Accept(s)
  \/ \E s \in Sessions : Tick(MaxSteps) /\ ConnectionLost(s)
  \/ \E s \in Sessions, o \in Openers : Tick(MaxSteps) /\ StreamOpen(s, o)
  \/ \E s \in Sessions : Tick(MaxSteps) /\ StreamClose(s)
  \/ \E s \in Sessions, f \in FragmentChunks : Tick(MaxSteps) /\ Fragment(s, f)
  \/ \E s \in Sessions, p \in Payloads : Tick(MaxSteps) /\ Auth(s, p)
  \/ \E s \in Sessions : Tick(MaxSteps) /\ StartTls(s)
  \/ \E s \in Sessions : Tick(MaxSteps) /\ StartTlsTask(s)
  \/ \E s \in Sessions : Tick(MaxSteps) /\ TlsDone(s)
  \/ \E s \in Sessions : Tick(MaxSteps) /\ TlsFail(s)
  \/ \E s \in Sessions : Tick(MaxSteps) /\ SchedulePing(s)
  \/ \E s \in Sessions, k \in PresenceKinds : Tick(MaxSteps) /\ Presence(s, k)
  \/ \E s \in Sessions, iq \in IqStanzas : Tick(MaxSteps) /\ HandleIq(s, iq)

Spec == Init /\ [][Next]_vars

\* The events of connecting, authenticating, binding and routing alone, with
\* fewer inputs, in longer behaviours.
RoutePayloads == {PayStd, PayGood}
RouteStanzas ==
  {iq \in IqStanzas :
     \/ iq.child \in {"bind", "session"} /\ iq.res = None
     \/ iq.child \in {"ping", "query"} /\ iq.to = ToBot /\ iq.tokens = {}
     \/ iq.child = "query" /\ iq.to = None /\ iq.tokens = {}
     \/ iq.child = "none" /\ iq.type = "result"
          /\ iq.to \in {ToNobody, ToNobodyAt, DeAddr}}

RouteNext ==
  \/ \E s \in Sessions : Tick(MaxRouteSteps) /\ Accept(s)
  \/ \E s \in Sessions : Tick(MaxRouteSteps) /\ StreamOpen(s, Opener(TRUE, <<"x">>))
  \/ \E s \in Sessions, p \in RoutePayloads : Tick(MaxRouteSteps) /\ Auth(s, p)
  \/ \E s \in Sessions, iq \in RouteStanzas : Tick(MaxRouteSteps) /\ HandleIq(s, iq)

RouteSpec == Init /\ [][RouteNext]_vars

\* The events of two peers of which one upgrades to TLS or leaves while the
\* other routes a stanza to it.
PeerStanzas ==
  {iq \in IqStanzas :
     \/ iq.child \in {"bind", "session"} /\ iq.res = None
     \/ iq.child = "ping" /\ iq.to = ToUser}

PeerNext ==
  \/ \E s \in Sessions : Tick(MaxPeerSteps) /\ Accept(s)
  \/ \E s \in Sessions : Tick(MaxPeerSteps) /\ Auth(s, PayGood)
  \/ \E s \in Sessions, iq \in PeerStanzas : Tick(MaxPeerSteps) /\ HandleIq(s, iq)
  \/ \E s \in Sessions : Tick(MaxPeerSteps) /\ StartTls(s)
  \/ \E s \in Sessions : Tick(MaxPeerSteps) /\ StartTlsTask(s)
  \/ \E s \in Sessions : Tick(MaxPeerSteps) /\ TlsDone(s)
  \/ \E s \in Sessions : Tick(MaxPeerSteps) /\ Presence(s, "unavailable")

PeerSpec == Init /\ [][PeerNext]_vars

\* The events of a bot and a controller that exchange com:ctl stanzas.
CtlStanzas ==
  {iq \in IqStanzas \cup DiscoStanzas \cup EnrollStanzas :
     \/ iq.child \in {"bind", "session"} /\ iq.res = None
     \/ iq.child = "query" /\ iq.tokens # {}}

CtlNext ==
  \/ \E s \in Sessions : Tick(MaxCtlSteps) /\ Accept(s)
  \/ \E s \in Sessions : Tick(MaxCtlSteps) /\ StreamOpen(s, Opener(TRUE, <<"x">>))
  \/ \E s \in Sessions : Tick(MaxCtlSteps) /\ Auth(s, PayEco)
  \/ \E s \in Sessions, iq \in CtlStanzas : Tick(MaxCtlSteps) /\ HandleIq(s, iq)

CtlSpec == Init /\ [][CtlNext]_vars

\* The events that create, ping and end sessions.  A scheduler task that
\* wakes up on a disconnected session ends; the event loop runs every task
\* whose sleep is over, so these steps are taken however long the behaviour
\* is, and they are not counted as events.
PingStanzas == {iq \in IqStanzas : iq.child \in {"bind", "session"} /\ iq.res = None}

PingTaskEnds(s) == PingStops(s) /\ SchedulePing(s) /\ UNCHANGED steps

LiveNext ==
  \/ \E s \in Sessions : Tick(MaxLiveSteps) /\ Accept(s)
  \/ \E s \in Sessions : Tick(MaxLiveSteps) /\ ConnectionLost(s)
  \/ \E s \in Sessions : Tick(MaxLiveSteps) /\ StreamClose(s)
  \/ \E s \in Sessions : Tick(MaxLiveSteps) /\ Presence(s, "unavailable")
  \/ \E s \in Sessions, iq \in PingStanzas : Tick(MaxLiveSteps) /\ HandleIq(s, iq)
  \/ \E s \in Sessions : Tick(MaxLiveSteps) /\ SchedulePing(s)
  \/ \E s \in Sessions : PingTaskEnds(s)

LiveSpec ==
  Init /\ [][LiveNext]_vars /\ \A s \in Sessions : WF_vars(PingTaskEnds(s))

\* ================================================================ claims
Live == {CONNECT, INIT, BIND, READY}
Forwarded == {"ping", "ctl", "result"}
Wrote(msg) == \E i \in DOMAIN sent : sent[i].msg = msg
WrotePrimed(msg) == \E i \in DOMAIN sent' : sent'[i].msg = msg
LastIs(op, s) == last.op = op /\ last.s = s
LastIsPrimed(op, s) == last'.op = op /\ last'.s = s

\* C1: over any sequence of events the numeric state of a session never
\* decreases.
C1_StateNeverDecreases ==
  [][\A s \in Sessions : state'[s] >= state[s]]_vars

\* A bind arrived on a READY session: the decrease to BIND was attempted and
\* the session is still READY.
C1_Witness ==
  \E s \in Sessions :
    LastIs("iq", s) /\ last.input[1] = "bind" /\ state[s] = READY

\* C2: a session enters BIND only from INIT and READY only from BIND, so a
\* session in BIND or READY has passed a successful SASL auth (its kind is
\* set) and a READY session has been bound (its jid is set).
C2_HandshakeOrder ==
  [][\A s \in Sessions :
       /\ (state'[s] = BIND /\ state[s] # BIND) => state[s] = INIT
       /\ (state'[s] = READY /\ state[s] # READY) => state[s] = BIND
       /\ state'[s] \in {BIND, READY} => type'[s] # UNKNOWN
       /\ state'[s] = READY => bumper_jid'[s] # <<>>]_vars

\* C3: a stanza is forwarded only when its originator is READY: an iq of a
\* session that is in CONNECT, INIT or BIND is forwarded to no other session
\* (stated for the matching loops; the broadcast is left aside).
C3_OnlyReadyOriginates ==
  \A i \in DOMAIN sent :
    (sent[i].via \in Forwarded /\ sent[i].dst # sent[i].src)
      => state[sent[i].src] \notin {CONNECT, INIT, BIND}

AllEstablished ==
  \A c \in Sessions :
    Count(clients, c) > 0
      => type[c] # UNKNOWN /\ bumper_jid[c] # <<>> /\ state[c] = READY

\* C5: a routed stanza whose to is not de.ecorobot.net and holds the uid of
\* no session of the Router's list (as a case-insensitive substring) is
\* delivered to no session.  Stated for sessions that are all established,
\* so that the originator and every candidate are regular READY peers.
C5_NoMatchNoDelivery ==
  \A i \in DOMAIN sent :
    (sent[i].via \in Forwarded /\ sent[i].addr # DeAddr /\ AllEstablished)
      => \E c \in Sessions :
           Count(clients, c) > 0 /\ UidMatches(c, sent[i].addr)

\* The session attempted a move to a lower state: a bind above BIND, a
\* session request above READY or an accepted auth above INIT.
AttemptedDecrease(s) ==
  /\ last'.s = s
  /\ \/ last'.op = "iq" /\ last'.input[1] = "bind" /\ state[s] > BIND
     \/ last'.op = "iq" /\ last'.input[1] = "session" /\ state[s] > READY
     \/ last'.op = "auth" /\ WrotePrimed("success") /\ state[s] > INIT

\* C6: an attempted move to a lower state is fatal: the session is forced to
\* DISCONNECT and its transport is closed.
C6_DecreaseIsFatal ==
  [][\A s \in Sessions :
       AttemptedDecrease(s) => state'[s] = DISCONNECT /\ closed'[s]]_vars

\* C7: a session in CONNECT, INIT, BIND or READY is in the Router's list
\* exactly once; it is appended by its accept only, and removed by its
\* connection loss only.
C7_ListedExactlyOnce ==
  [][\A s \in Sessions :
       /\ state'[s] \in Live => Count(clients', s) = 1
       /\ Count(clients', s) > Count(clients, s)
            => LastIsPrimed("accept", s) /\ Count(clients, s) = 0
       /\ Count(clients', s) < Count(clients, s)
            => LastIsPrimed("connection_lost", s)]_vars

\* A TLS upgrade has completed on a session, which is still listed once.
C7_Witness ==
  \E s \in Sessions :
    /\ LastIs("tls_done", s)
    /\ transport[s] = "tls"
    /\ state[s] \in Live
    /\ Count(clients, s) = 1

\* The payload has a NUL separator in its part before the first "/".
WellFormed(p) == HasChar(Split(p, "/")[1], NUL)

\* The auth event left the session authenticated: <success/> written, a kind
\* assigned, CONNECT -> INIT.
AuthSucceeded(s) ==
  /\ sent' = <<Write(s, s, "reply", "success", <<>>)>>
  /\ type'[s] \in {BOT, CONTROLLER}
  /\ state[s] = CONNECT /\ state'[s] = INIT

\* C8: a well-formed SASL PLAIN auth on a session in CONNECT succeeds exactly
\* when the session has a devclass, or check_authcode(uid, authcode) holds, or
\* use_auth is off; the kind is then BOT iff the devclass is non-empty, and
\* CONTROLLER otherwise.
C8_AuthDecision ==
  [][\A s \in Sessions :
       (LastIsPrimed("auth", s) /\ state[s] = CONNECT /\ WellFormed(last'.input))
         => /\ AuthSucceeded(s)
                <=> \/ devclass[s] # <<>>
                    \/ check_authcode(uid'[s], SaslAuthcode(last'.input))
                    \/ ~use_auth
            /\ AuthSucceeded(s)
                => type'[s] = (IF devclass[s] # <<>> THEN BOT ELSE CONTROLLER)]_vars

\* A controller was accepted by its authcode while use_auth is on.
C8_Witness ==
  \E s \in Sessions :
    /\ LastIs("auth", s) /\ Wrote("success")
    /\ use_auth /\ devclass[s] = <<>>
    /\ type[s] = CONTROLLER /\ state[s] = INIT

\* C9: a rejected controller auth (use_auth on, check_authcode false) on a
\* fresh session is answered with <response/> and leaves the session in
\* CONNECT, of kind UNKNOWN and with an empty uid.
C9_RejectedStaysAnonymous ==
  [][\A s \in Sessions :
       (/\ LastIsPrimed("auth", s) /\ WellFormed(last'.input)
        /\ state[s] = CONNECT /\ uid[s] = <<>> /\ devclass[s] = <<>>
        /\ use_auth
        /\ ~check_authcode(SaslUsername(last'.input), SaslAuthcode(last'.input)))
         => /\ sent' = <<Write(s, s, "reply", "response", <<>>)>>
            /\ state'[s] = CONNECT
            /\ type'[s] = UNKNOWN
            /\ uid'[s] = <<>>]_vars

\* C10: an auth whose payload has no NUL separator is answered with
\* <response/> and leaves the session in CONNECT.
C10_NoNulIsRejected ==
  [][\A s \in Sessions :
       (LastIsPrimed("auth", s) /\ ~WellFormed(last'.input) /\ state[s] = CONNECT)
         => /\ sent' = <<Write(s, s, "reply", "response", <<>>)>>
            /\ state'[s] = CONNECT]_vars

\* C11: once the uid of a session is not empty, no event sets it back to the
\* empty string.
C11_UidNeverCleared ==
  [][\A s \in Sessions : uid[s] # <<>> => uid'[s] # <<>>]_vars

\* A step wrote <proceed/> on session s.
ProceedWritten(s) ==
  \E i \in DOMAIN sent' : sent'[i].dst = s /\ sent'[i].msg = "proceed"

\* C12: <proceed/> is sent and a TLS upgrade is started at most once per
\* session, however many STARTTLS requests arrive and however they interleave
\* with the upgrade tasks: <proceed/> is written only by a step that finds
\* TLSUpgraded false and sets it, a handshake starts only in such a step, and
\* TLSUpgraded, once true, never becomes false.
C12_UpgradeAtMostOnce ==
  [][\A s \in Sessions :
       /\ ProceedWritten(s) => ~TLSUpgraded[s] /\ TLSUpgraded'[s]
       /\ (tlsHandshake'[s] /\ ~tlsHandshake[s]) => ProceedWritten(s)
       /\ TLSUpgraded[s] => TLSUpgraded'[s]]_vars

\* Two upgrade tasks were created before either ran; the second one has now
\* run, found the session upgraded and written nothing.
C12_Witness ==
  \E s \in Sessions :
    /\ LastIs("starttls_task", s)
    /\ sent = <<>>
    /\ TLSUpgraded[s]
    /\ tlsQueued[s] = 0

\* Every session that was ever accepted is in DISCONNECT and has had its
\* connection loss.
AllGone == \A s \in Sessions : hasClient[s] => state[s] = DISCONNECT /\ ~live[s]

\* C14: a session that has entered DISCONNECT has its transport closed and
\* its online flags cleared: once every session that was ever accepted is in
\* DISCONNECT and has had its connection loss, no bot and no client of the
\* credentials store is flagged online any more.  Stated for a store whose
\* bots and clients have non-empty keys; the removal from the Router's list
\* is left out of this statement.
C14_DisconnectClearsFlags ==
  /\ \A s \in Sessions : state[s] = DISCONNECT => closed[s]
  /\ (AllGone /\ <<>> \notin botsDb \cup clientsDb)
       => botOnline = {} /\ clientOnline = {}

\* C15: a lone </stream:stream> read by a session that is in a state before
\* DISCONNECT is answered with </stream:stream> and moves the session to
\* DISCONNECT.
C15_StreamCloseDisconnects ==
  [][\A s \in Sessions :
       (LastIsPrimed("stream_close", s) /\ state[s] < DISCONNECT)
         => /\ sent' = <<Write(s, s, "reply", "</stream:stream>", <<>>)>>
            /\ state'[s] = DISCONNECT]_vars

\* A bound session has read a lone </stream:stream>.
C15_Witness ==
  \E s \in Sessions :
    /\ LastIs("stream_close", s)
    /\ bumper_jid[s] # <<>>
    /\ Wrote("</stream:stream>")
    /\ state[s] = DISCONNECT /\ closed[s]

\* The two chunks of one split stanza were read by session s one after the
\* other: this step read the tail, the step before read the head.
SplitArrived(s, stanza) ==
  /\ LastIs("fragment", s) /\ last.input = <<stanza, "head">>
  /\ LastIsPrimed("fragment", s) /\ last'.input = <<stanza, "tail">>

\* C17: a stanza split across two consecutive chunks of one connection is
\* processed when its second chunk arrives: a session request is answered
\* and moves the session to READY, a presence of type unavailable moves it
\* to DISCONNECT, an auth is answered.
C17_SplitStanzaProcessed ==
  [][\A s \in Sessions :
       /\ SplitArrived(s, "session")
            => /\ WrotePrimed("session-result")
               /\ state'[s] = set_state(state[s], READY)
       /\ SplitArrived(s, "unavailable") => state'[s] = DISCONNECT
       /\ SplitArrived(s, "auth")
            => WrotePrimed("success") \/ WrotePrimed("response")]_vars

\* C18: the scheduler writes a ping only on a session that is READY, so none
\* on a session in DISCONNECT, and once a session is in DISCONNECT every
\* scheduler task it has comes to an end.
C18_PingOnlyWhileReady ==
  /\ [](\A i \in DOMAIN sent :
          sent[i].via = "sched" => state[sent[i].dst] = READY)
  /\ \A s \in Sessions : (state[s] = DISCONNECT) ~> (pingTasks[s] = 0)

\* A scheduler task woke up on a session that has disconnected: it wrote
\* nothing and ended, and no task of the session is left.
C18_Witness ==
  \E s \in Sessions :
    /\ LastIs("schedule_ping", s)
    /\ sent = <<>>
    /\ state[s] = DISCONNECT
    /\ pingTasks[s] = 0

\* C13: while the TLS handshake of a session is awaited, between its
\* <proceed/> and the replacement of its transport, no stanza originated by
\* another session is written to it.
C13_NothingRoutedDuringUpgrade ==
  \A i \in DOMAIN sent :
    sent[i].dst # sent[i].src => ~tlsHandshake[sent[i].dst]

Copies(c) == Cardinality({i \in DOMAIN sent : sent[i].dst = c})

\* C19: when a bot sends a stanza to de.ecorobot.net, every session of the
\* Router's list, the bot included, is written exactly one copy.
C19_BroadcastOneCopyEach ==
  (\E i \in DOMAIN sent : sent[i].via = "bcast")
    => \A c \in Sessions : Count(clients, c) > 0 => Copies(c) = 1

\* C20: a com:ctl query of a session that is not a bot is written to another
\* session only if that session is READY, a BOT, of another jid than the
\* sender's, and its uid occurs, whatever the case, in the to of the query;
\* so it reaches no controller, and nobody when the to is absent.
C20_CtlOnlyToMatchingBots ==
  \A i \in DOMAIN sent :
    (/\ LastIs("iq", sent[i].src) /\ last.input = <<"query">>
     /\ type[sent[i].src] # BOT
     /\ sent[i].dst # sent[i].src)
      => /\ state[sent[i].dst] = READY
         /\ type[sent[i].dst] = BOT
         /\ type[sent[i].dst] # CONTROLLER
         /\ bumper_jid[sent[i].dst] # bumper_jid[sent[i].src]
         /\ Truthy(sent[i].addr)
         /\ IsSubstr(Lower(uid[sent[i].dst]), Lower(sent[i].addr))

\* The com:ctl query of an authenticated controller was written to a bot
\* whose uid is not empty.
C20_Witness ==
  \E i \in DOMAIN sent :
    /\ sent[i].via = "ctl"
    /\ type[sent[i].src] = CONTROLLER
    /\ type[sent[i].dst] = BOT /\ uid[sent[i].dst] # <<>>

\* C21: a controller's type="set" query that holds com:sf and is addressed to
\* rl.ecorobot.net is answered with one empty result to the controller and
\* is written to no other session, whatever the uids of the bots.
C21_RlAckNotForwarded ==
  [][\A s \in Sessions, iq \in IqStanzas :
       (/\ type[s] = CONTROLLER
        /\ iq.child = "query" /\ iq.type = "set"
        /\ "com:sf" \in iq.tokens /\ iq.to = RlAddr
        /\ LastIsPrimed("iq", s)
        /\ HandleIq(s, iq))
         => sent' = <<Write(s, s, "reply", "rl-result", <<>>)>>]_vars

\* C22: a controller's query that holds roster, disco#items or disco#info is
\* answered with exactly one 501 error that carries the stanza's id, written
\* to the controller, and nothing is written to any other session.
C22_UnsupportedGets501 ==
  [][\A s \in Sessions, iq \in CtlStanzas :
       (/\ type[s] = CONTROLLER
        /\ iq.child = "query"
        /\ iq.tokens \cap {"roster", "disco#items", "disco#info"} # {}
        /\ LastIsPrimed("iq", s)
        /\ HandleIq(s, iq))
         => sent' = <<Write(s, s, "reply", "error-501", iq.id)>>]_vars

\* A controller's disco#info query addressed to a READY bot whose uid occurs
\* in the address was answered.
C22_Witness ==
  /\ Wrote("error-501")
  /\ \E s, b \in Sessions :
       /\ LastIs("iq", s) /\ type[s] = CONTROLLER
       /\ sent[1].addr = <<"9">>
       /\ type[b] = BOT /\ state[b] = READY /\ bumper_jid[b] # bumper_jid[s]
       /\ UidMatches(b, ToEco)

EnrollmentSent ==
  WrotePrimed("AddUser") \/ WrotePrimed("SetAC") \/ WrotePrimed("GetUserInfo")

\* C23 as stated: on a bot's stanza with errno='103' that has a to and names
\* an admin user, the enrollment is skipped when the to starts with fuid_ or
\* fusername_ or use_auth is on, and is performed otherwise.
C23_SkippedByNewUser ==
  [][\A s \in Sessions, iq \in CtlStanzas :
       (/\ type[s] = BOT
        /\ "errno103" \in iq.tokens
        /\ Truthy(iq.to) /\ iq.ctl0 \in {"error", "admin"}
        /\ LastIsPrimed("iq", s)
        /\ HandleIq(s, iq))
         => (EnrollmentSent
               <=> ~(\/ StartsWith(iq.to, FuidPrefix)
                     \/ StartsWith(iq.to, FusernamePrefix)
                     \/ use_auth))]_vars

\* C23, amended: on a bot's stanza with errno='103' the enrollment is
\* performed exactly when the stanza has a to, its first ctl names an admin
\* user in an error or admin attribute, that admin user starts with neither
\* fuid_ nor fusername_, and use_auth is off.
C23_SkippedByAdminUser ==
  [][\A s \in Sessions, iq \in CtlStanzas :
       (/\ type[s] = BOT
        /\ "errno103" \in iq.tokens
        /\ LastIsPrimed("iq", s)
        /\ HandleIq(s, iq))
         => (EnrollmentSent
               <=> /\ Truthy(iq.to)
                   /\ iq.ctl0 \in {"error", "admin"}
                   /\ ~StartsWith(iq.admin, FuidPrefix)
                   /\ ~StartsWith(iq.admin, FusernamePrefix)
                   /\ ~use_auth)]_vars

\* A bot's stanza addressed to a fuid_ user was answered with the enrollment
\* of that user.
C23_Witness ==
  \E s \in Sessions :
    /\ LastIs("iq", s) /\ type[s] = BOT /\ ~use_auth
    /\ Wrote("AddUser")
    /\ StartsWith(sent[1].jid, FuidPrefix)
    /\ ~StartsWith(sent[1].frm, FuidPrefix)

\* C24: when a bot sends a stanza with errno='103' and the enrollment is not
\* skipped, exactly three stanzas are written, all to the bot's own session,
\* in the order AddUser, SetAC, GetUserInfo, each from the admin user and to
\* the bot's jid; the bot's stanza is written to no other session.
C24_EnrollmentTriple ==
  [][\A s \in Sessions, iq \in CtlStanzas :
       (/\ type[s] = BOT
        /\ "errno103" \in iq.tokens
        /\ Truthy(iq.to) /\ iq.ctl0 \in {"error", "admin"}
        /\ ~StartsWith(iq.admin, FuidPrefix)
        /\ ~StartsWith(iq.admin, FusernamePrefix)
        /\ ~use_auth
        /\ LastIsPrimed("iq", s)
        /\ HandleIq(s, iq))
         => /\ Len(sent') = 3
            /\ <<sent'[1].msg, sent'[2].msg, sent'[3].msg>>
                 = <<"AddUser", "SetAC", "GetUserInfo">>
            /\ \A i \in 1..3 : /\ sent'[i].dst = s
                                /\ sent'[i].frm = iq.admin
                                /\ sent'[i].addr = bumper_jid[s]]_vars

\* A bound bot was sent the three stanzas, from the admin user its ctl's admin
\* attribute names, while a READY peer's uid occurs in the new user's address.
C24_Witness ==
  \E s, c \in Sessions :
    /\ LastIs("iq", s) /\ type[s] = BOT /\ bumper_jid[s] # <<>>
    /\ Len(sent) = 3 /\ sent[3].msg = "GetUserInfo"
    /\ sent[1].frm = OwnerB
    /\ c # s /\ state[c] = READY /\ bumper_jid[c] # bumper_jid[s]
    /\ uid[c] # <<>> /\ UidMatches(c, sent[1].jid)

\* j is a non-empty text followed by "@", dc and ".ecorobot.net/atom"
HasBotForm(j, dc) ==
  \E k \in 2..Len(j) :
    SubSeq(j, k, Len(j)) = <<"@">> \o dc \o EcorobotNet \o AtomSuffix

\* C25: a session with a non-empty devclass that has been bound has, in BIND
\* and in every later state, a jid of the form
\* <non-empty uid>@<devclass>.ecorobot.net/atom.
C25_BotJidForm ==
  \A s \in Sessions :
    (devclass[s] # <<>> /\ bumper_jid[s] # <<>> /\ state[s] >= BIND)
      => HasBotForm(bumper_jid[s], devclass[s])

\* C26: the bind of a controller (empty devclass) assigns
\* uid@ecouser.net/resource whenever the session has a resource, parsed from
\* the SASL payload or supplied in the bind request, and the bare
\* uid@ecouser.net only when the session has none.
C26_ControllerJidHasResource ==
  [][\A s \in Sessions :
       (/\ LastIsPrimed("iq", s) /\ last'.input[1] = "bind"
        /\ type[s] = CONTROLLER /\ devclass[s] = <<>>)
         => bumper_jid'[s] =
              IF clientresource'[s] # <<>>
              THEN uid[s] \o <<"@">> \o server_id \o <<"/">>
                     \o clientresource'[s]
              ELSE uid[s] \o <<"@">> \o server_id]_vars

\* C27: once an authenticated and bound session is READY, no later auth or
\* iq stanza of that session changes its uid, its kind or its jid.
C27_IdentityFixedWhenReady ==
  [][\A s \in Sessions :
       (/\ state[s] = READY
        /\ type[s] # UNKNOWN /\ uid[s] # <<>> /\ bumper_jid[s] # <<>>
        /\ last'.s = s /\ last'.op \in {"auth", "iq"})
         => /\ uid'[s] = uid[s]
            /\ type'[s] = type[s]
            /\ bumper_jid'[s] = bumper_jid[s]]_vars

\* C28: a session never has more than one ping scheduler task alive.
C28_OnePingLoop ==
  \A s \in Sessions : pingTasks[s] <= 1
====
